---- MODULE Spec2Model ----
(***************************************************************************)
(* Model of the blog-report backend (src/main.py, src/schemas.py):         *)
(* admin login, bearer-token verification and report creation.             *)
(*                                                                         *)
(* Text fields (title, excerpt, content) are represented by their          *)
(* character count: the code only validates their length and stores them.  *)
(* Passwords, file names and URLs are sequences of one-character strings,  *)
(* because the code truncates, rewrites and prefix-tests them.             *)
(* Optional values are sequences of length 0 (None) or 1.                  *)
(* Record constructors list their fields in the order TLC normalizes them  *)
(* to (the order in which the names first occur in the module).            *)
(***************************************************************************)
EXTENDS Integers, Sequences, FiniteSets, TLC

VARIABLES
    ADMIN_USERNAME,       \* main.py:21
    ADMIN_PASSWORD,       \* main.py:23
    ADMIN_PASSWORD_HASH,  \* main.py:22-33
    backend,              \* behaviour of the installed bcrypt backend on long secrets
    now,                  \* wall clock, in ticks of TickSeconds
    issued,               \* tokens returned by successful logins
    pc,                   \* "idle" | "done" : position of the sequential server
    req,                  \* request just handled
    resp,                 \* its response
    docs,                 \* the "blogreport" collection, in insertion order
    files,                \* /tmp/uploads : set of [name, data]
    slots                 \* concurrently handled report requests

vars == <<ADMIN_USERNAME, ADMIN_PASSWORD, ADMIN_PASSWORD_HASH, backend, now,
          issued, pc, req, resp, docs, files, slots>>

config == <<ADMIN_USERNAME, ADMIN_PASSWORD, ADMIN_PASSWORD_HASH, backend>>

----------------------------------------------------------------------------
(* Bounds *)

MaxDocs == 1
MaxTicks == 3
TickSeconds == 21600
NumRequests == 2

----------------------------------------------------------------------------
(* Program constants *)

SECRET_KEY == "dev-secret-key-change-me"
ALGORITHM == "HS256"
ACCESS_TOKEN_EXPIRE_MINUTES == 60 * 12
BcryptMaxLen == 72
MinTitleLen == 3
MaxTitleLen == 140
MaxExcerptLen == 280
MinContentLen == 10
Categories == {"Kebabs", "Burgers", "Restaurants"}

None == << >>
Some(x) == <<x>>

DefaultAdminPassword == <<"a", "d", "m", "i", "n", "1", "2", "3">>

----------------------------------------------------------------------------
(* Password hashing: passlib CryptContext(schemes=["bcrypt"]) *)

\* s[:n]
Truncate(s, n) == IF Len(s) <= n THEN s ELSE SubSeq(s, 1, n)

\* bcrypt only ever looks at the first 72 bytes of a secret.  Releases of the
\* bcrypt backend differ on longer secrets: older ones truncate silently,
\* newer ones raise.  The salted digest is idealised as injective on the
\* bytes it consumes.
pwd_context_hash(secret) ==
    IF Len(secret) > BcryptMaxLen /\ backend = "reject"
    THEN [raised |-> TRUE, digest |-> << >>]
    ELSE [raised |-> FALSE, digest |-> Truncate(secret, BcryptMaxLen)]

pwd_context_verify(secret, hash) ==
    IF Len(secret) > BcryptMaxLen /\ backend = "reject"
    THEN [raised |-> TRUE, match |-> FALSE]
    ELSE [raised |-> FALSE, match |-> (Truncate(secret, BcryptMaxLen) = hash)]

verify_password(plain_password, hashed_password) ==
    LET r == pwd_context_verify(plain_password, hashed_password)
    IN  IF r.raised THEN FALSE ELSE r.match

authenticate_admin(username, password) ==
    IF username = ADMIN_USERNAME /\ verify_password(password, ADMIN_PASSWORD_HASH)
    THEN Some([username |-> username])
    ELSE None

----------------------------------------------------------------------------
(* Tokens: python-jose jwt.encode / jwt.decode with HS256 *)

NowSeconds == now * TickSeconds

\* HMAC is idealised: a signature names the key, the header and the payload
\* it was computed over.
Sign(key, alg, payload) == [key |-> key, alg |-> alg, payload |-> payload]

\* Variant: the lifetime is encoded as a registered "exp" claim
create_access_token_exp(data) ==
    LET expire == ACCESS_TOKEN_EXPIRE_MINUTES * 60
        to_encode == [sub |-> data.sub, exp_seconds |-> expire,
                      exp |-> Some(NowSeconds + expire)]
    IN  [alg |-> ALGORITHM, payload |-> to_encode,
         sig |-> Sign(SECRET_KEY, ALGORITHM, to_encode)]

create_access_token(data) ==
    LET expire == ACCESS_TOKEN_EXPIRE_MINUTES * 60
        to_encode == [sub |-> data.sub, exp_seconds |-> expire, exp |-> None]
    IN  [alg |-> ALGORITHM, payload |-> to_encode,
         sig |-> Sign(SECRET_KEY, ALGORITHM, to_encode)]

\* Variant: the signature is not verified
jwt_decode_unverified(token) ==
    IF token.alg # ALGORITHM
    THEN [payload |-> token.payload, error |-> TRUE]
    ELSE IF token.payload.exp # None /\ token.payload.exp[1] < NowSeconds
    THEN [payload |-> token.payload, error |-> TRUE]
    ELSE [payload |-> token.payload, error |-> FALSE]

\* jwt.decode(token, SECRET_KEY, algorithms=[ALGORITHM]): the header's
\* algorithm must be allowed, the signature must verify, a registered "exp"
\* claim, when present, must not lie in the past.  Any failure is a JWTError.
jwt_decode(token) ==
    IF token.alg # ALGORITHM
    THEN [payload |-> token.payload, error |-> TRUE]
    ELSE IF token.sig # Sign(SECRET_KEY, token.alg, token.payload)
    THEN [payload |-> token.payload, error |-> TRUE]
    ELSE IF token.payload.exp # None /\ token.payload.exp[1] < NowSeconds
    THEN [payload |-> token.payload, error |-> TRUE]
    ELSE [payload |-> token.payload, error |-> FALSE]

NotAuthenticated ==
    [username |-> "", ok |-> FALSE, status |-> 401, detail |-> "Not authenticated"]
credentials_exception ==
    [username |-> "", ok |-> FALSE, status |-> 401, detail |-> "Could not validate credentials"]

\* Variant: the subject is not compared with ADMIN_USERNAME
get_current_user_any_subject(auth) ==
    IF auth = None THEN NotAuthenticated
    ELSE LET d == jwt_decode(auth[1])
         IN  IF d.error THEN credentials_exception
             ELSE IF d.payload.sub = None THEN credentials_exception
             ELSE [username |-> d.payload.sub[1], ok |-> TRUE, status |-> 200, detail |-> ""]

\* oauth2_scheme (no bearer header: 401) followed by get_current_user
get_current_user(auth) ==
    IF auth = None THEN NotAuthenticated
    ELSE LET d == jwt_decode(auth[1])
         IN  IF d.error THEN credentials_exception
             ELSE IF d.payload.sub = None THEN credentials_exception
             ELSE IF d.payload.sub[1] # ADMIN_USERNAME THEN credentials_exception
             ELSE [username |-> d.payload.sub[1], ok |-> TRUE, status |-> 200, detail |-> ""]

----------------------------------------------------------------------------
(* Report creation helpers *)

\* image.filename.replace("/", "_").replace("\\", "_")
safe_name(filename) ==
    [i \in 1..Len(filename) |->
        IF filename[i] \in {"/", "\\"} THEN "_" ELSE filename[i]]

UploadsUrlPrefix == <<"/", "u", "p", "l", "o", "a", "d", "s", "/">>

\* f"/uploads/{safe_name}"
image_url_of(name) == UploadsUrlPrefix \o name

HasPrefix(s, p) == Len(s) >= Len(p) /\ SubSeq(s, 1, Len(p)) = p

\* pydantic HttpUrl: an absolute URL whose scheme is http or https
HttpUrlValid(u) ==
    \/ HasPrefix(u, <<"h", "t", "t", "p", ":", "/", "/">>)
    \/ HasPrefix(u, <<"h", "t", "t", "p", "s", ":", "/", "/">>)

\* Variant: the category is passed through
NormalizeCategory_passthrough(category) == category

NormalizeCategory(category) ==
    IF category \in Categories THEN category ELSE "Restaurants"

\* Variant: the title has no minimum length
BlogReportValid_no_min_title(d) ==
    /\ d.title <= MaxTitleLen
    /\ d.category \in Categories
    /\ (d.image_url # None => HttpUrlValid(d.image_url[1]))
    /\ (d.excerpt # None => d.excerpt[1] <= MaxExcerptLen)
    /\ d.content >= MinContentLen
    /\ d.status \in {"draft", "published"}

\* Field constraints of schemas.BlogReport
BlogReportValid(d) ==
    /\ d.title >= MinTitleLen /\ d.title <= MaxTitleLen
    /\ d.category \in Categories
    /\ (d.image_url # None => HttpUrlValid(d.image_url[1]))
    /\ (d.excerpt # None => d.excerpt[1] <= MaxExcerptLen)
    /\ d.content >= MinContentLen
    /\ d.status \in {"draft", "published"}

\* The record built at main.py:138-146
BuildDoc(r, image_url) ==
    [status |-> "published",
     category |-> NormalizeCategory(r.category),
     title |-> r.title,
     image_url |-> image_url,
     excerpt |-> r.excerpt,
     content |-> r.content,
     author |-> "admin"]

\* database.create_document(collection, doc): one atomic insert that returns
\* the id the store generated for the new document.
create_document(collection, doc) ==
    LET id == Len(collection) + 1
    IN  [collection |-> Append(collection, [doc |-> doc, id |-> id]), id |-> id]

\* open(file_path, "wb").write(content_bytes): create or overwrite
WriteFile(dir, name, data) ==
    {f \in dir : f.name # name} \cup {[data |-> data, name |-> name]}

----------------------------------------------------------------------------
(* Process start: module-level code of main.py *)

\* if not ADMIN_PASSWORD_HASH: hash ADMIN_PASSWORD[:72], falling back to the
\* hash of "admin123" when the backend raises.  (Configurations in which the
\* environment already provides ADMIN_PASSWORD_HASH are not modelled.)
StartupHash ==
    LET h == pwd_context_hash(Truncate(ADMIN_PASSWORD, BcryptMaxLen))
    IN  IF h.raised THEN pwd_context_hash(DefaultAdminPassword).digest ELSE h.digest

NoReq == [kind |-> "none"]
NoResp == [status |-> 0, detail |-> "", image_url |-> None, id |-> None, access_token |-> None]
IdleSlot == [pc |-> "idle", req |-> NoReq, resp |-> NoResp,
             image_url |-> None, user |-> NotAuthenticated]

Startup(usernames, passwords, backends) ==
    /\ ADMIN_USERNAME \in usernames
    /\ ADMIN_PASSWORD \in passwords
    /\ backend \in backends
    /\ ADMIN_PASSWORD_HASH = StartupHash
    /\ now = 0
    /\ issued = {}
    /\ pc = "idle"
    /\ req = NoReq
    /\ resp = NoResp
    /\ docs = << >>
    /\ files = {}
    /\ slots = [s \in 1..NumRequests |-> IdleSlot]

----------------------------------------------------------------------------
(* Request handlers, one request at a time *)

LoginRequest(username, password) ==
    [username |-> username, password |-> password, kind |-> "login"]

ReportRequest(auth, title, category, excerpt, content, image) ==
    [auth |-> auth, category |-> category, title |-> title, excerpt |-> excerpt,
     content |-> content, kind |-> "report", image |-> image]

\* POST /auth/login
login(payload) ==
    /\ pc = "idle"
    /\ pc' = "done"
    /\ req' = payload
    /\ LET user == authenticate_admin(payload.username, payload.password)
       IN  IF user = None
           THEN /\ resp' = [NoResp EXCEPT !.status = 400,
                                          !.detail = "Incorrect username or password"]
                /\ issued' = issued
           ELSE LET access_token == create_access_token([sub |-> Some(user[1].username)])
                IN  /\ resp' = [NoResp EXCEPT !.status = 200,
                                              !.access_token = Some(access_token)]
                    /\ issued' = issued \cup {access_token}
    /\ UNCHANGED <<config, now, docs, files, slots>>

\* Outcomes of the store for one insert: it may fail; the collection is
\* capped at MaxDocs documents.
StoreOutcomes(collection) == IF Len(collection) < MaxDocs THEN BOOLEAN ELSE {FALSE}

\* POST /api/reports
create_report(r) ==
    /\ pc = "idle"
    /\ pc' = "done"
    /\ req' = r
    /\ LET current_user == get_current_user(r.auth)
       IN  IF ~current_user.ok
           THEN /\ resp' = [NoResp EXCEPT !.status = current_user.status,
                                          !.detail = current_user.detail]
                /\ UNCHANGED <<docs, files>>
           ELSE LET name == IF r.image = None THEN << >> ELSE safe_name(r.image[1].filename)
                    image_url == IF r.image = None THEN None ELSE Some(image_url_of(name))
                    doc == BuildDoc(r, image_url)
                IN  /\ files' = IF r.image = None THEN files
                                 ELSE WriteFile(files, name, r.image[1].data)
                    /\ IF ~BlogReportValid(doc)
                       THEN /\ resp' = [NoResp EXCEPT !.status = 500,
                                                      !.detail = "ValidationError"]
                            /\ docs' = docs
                       ELSE \E stored \in StoreOutcomes(docs) :
                              IF stored
                              THEN LET ins == create_document(docs, doc)
                                   IN  /\ docs' = ins.collection
                                       /\ resp' = [NoResp EXCEPT !.status = 200,
                                                                 !.id = Some(ins.id),
                                                                 !.image_url = image_url]
                              ELSE /\ docs' = docs
                                   /\ resp' = [NoResp EXCEPT !.status = 500,
                                                             !.detail = "StorageFailure"]
    /\ UNCHANGED <<config, now, issued, slots>>

\* The response has been sent; the server takes the next request.
Respond ==
    /\ pc = "done"
    /\ pc' = "idle"
    /\ req' = NoReq
    /\ resp' = NoResp
    /\ UNCHANGED <<config, now, issued, docs, files, slots>>

\* Time passes.
Tick ==
    /\ now < MaxTicks
    /\ now' = now + 1
    /\ UNCHANGED <<config, issued, pc, req, resp, docs, files, slots>>

----------------------------------------------------------------------------
(* Inputs *)

Pad(n) == [i \in 1..n |-> "x"]
WrongPassword == <<"a", "d", "m", "i", "n", "1", "2", "4">>
LongPassword == Pad(BcryptMaxLen)
LongerPasswordA == Pad(BcryptMaxLen) \o <<"a">>
LongerPasswordB == Pad(BcryptMaxLen) \o <<"b">>

AdminUsernames == {"admin", "root"}
AdminPasswords == {DefaultAdminPassword, LongPassword, LongerPasswordA}
Backends == {"truncate", "reject"}
Usernames == {"admin", "root", "guest"}
Passwords == {DefaultAdminPassword, WrongPassword, << >>,
              LongPassword, LongerPasswordA, LongerPasswordB}

AttackerKey == "attacker-key"

Payload(sub, exp) == [sub |-> sub, exp_seconds |-> ACCESS_TOKEN_EXPIRE_MINUTES * 60, exp |-> exp]

\* The payload of the token login issues to the admin
AdminPayload == Payload(Some(ADMIN_USERNAME), None)

\* Tokens a client may present: any subject (or none), with or without a
\* registered expiry, under the service's algorithm or "none", signed with the
\* service's key, with another key, or carrying the signature of the admin's
\* token (a payload altered after signing).
PresentedTokens ==
    { [alg |-> a, payload |-> p, sig |-> s] :
        a \in {ALGORITHM, "none"},
        p \in { Payload(sub, exp) :
                  sub \in {None} \cup { Some(u) : u \in Usernames },
                  exp \in {None, Some(TickSeconds)} },
        s \in { Sign(SECRET_KEY, ALGORITHM, AdminPayload) }
              \cup { Sign(k, ALGORITHM, q) :
                       k \in {SECRET_KEY, AttackerKey},
                       q \in { Payload(sub, None) : sub \in { Some(u) : u \in Usernames } } } }

\* The tokens of PresentedTokens that differ in their own payload only
TokensAuth ==
    { t \in PresentedTokens :
        \/ t.sig.payload = t.payload
        \/ t.sig = Sign(SECRET_KEY, ALGORITHM, AdminPayload) }

\* The token login issues to the admin
AdminToken == create_access_token([sub |-> Some(ADMIN_USERNAME)])

FileName1 == <<"a", "/", "b", ".", "p", "n", "g">>
FileName2 == <<"a", "\\", "b", ".", "p", "n", "g">>
Images == { [data |-> "bytes1", filename |-> FileName1],
            [data |-> "bytes2", filename |-> FileName2] }

Titles == {MinTitleLen - 1, MinTitleLen, MaxTitleLen, MaxTitleLen + 1}
Contents == {MinContentLen - 1, MinContentLen}
Excerpts == {None, Some(MaxExcerptLen), Some(MaxExcerptLen + 1)}
SubmittedCategories == Categories \cup {"Pizza"}

Opt(S) == {None} \cup { Some(x) : x \in S }

----------------------------------------------------------------------------
(* Spec: one server, report submissions over the whole range of fields *)

Init == Startup(AdminUsernames, {DefaultAdminPassword}, {"truncate"})

SubmitReport ==
    \E auth \in Opt({AdminToken}), title \in Titles, category \in SubmittedCategories,
       excerpt \in Excerpts, content \in Contents, image \in Opt(Images) :
        create_report(ReportRequest(auth, title, category, excerpt, content, image))

Next == SubmitReport \/ Respond

Spec == Init /\ [][Next]_vars

----------------------------------------------------------------------------
(* SpecAuth: one server, logins and token presentation over the whole range  *)
(* of credentials and tokens, with time passing                              *)

InitAuth == Startup(AdminUsernames, AdminPasswords, Backends)

SubmitLogin ==
    \E username \in Usernames, password \in Passwords :
        login(LoginRequest(username, password))

PresentToken ==
    \E auth \in Opt(TokensAuth \cup issued), title \in {MinTitleLen - 1, MinTitleLen},
       image \in Opt({[data |-> "bytes1", filename |-> FileName1]}) :
        create_report(ReportRequest(auth, title, "Kebabs", None, MinContentLen, image))

NextAuth == SubmitLogin \/ PresentToken \/ Respond \/ Tick

SpecAuth == InitAuth /\ [][NextAuth]_vars

----------------------------------------------------------------------------
(* SpecConc: NumRequests report submissions handled concurrently.  The       *)
(* handler is split where other requests can run in between: after the       *)
(* get_current_user dependency, after the upload is written, after the       *)
(* record is validated, and at the store's insert.                           *)

SetSlot(s, v) == slots' = [slots EXCEPT ![s] = v]

Arrive(s, r) ==
    /\ slots[s].pc = "idle"
    /\ SetSlot(s, [slots[s] EXCEPT !.pc = "auth", !.req = r])
    /\ UNCHANGED <<config, now, issued, pc, req, resp, docs, files>>

\* Depends(get_current_user)
Authenticate(s) ==
    /\ slots[s].pc = "auth"
    /\ LET current_user == get_current_user(slots[s].req.auth)
       IN  IF current_user.ok
           THEN SetSlot(s, [slots[s] EXCEPT !.pc = "upload", !.user = current_user])
           ELSE SetSlot(s, [slots[s] EXCEPT
                    !.pc = "done",
                    !.resp = [NoResp EXCEPT !.status = current_user.status,
                                            !.detail = current_user.detail]])
    /\ UNCHANGED <<config, now, issued, pc, req, resp, docs, files>>

\* main.py:127-136
SaveUpload(s) ==
    /\ slots[s].pc = "upload"
    /\ LET r == slots[s].req
           name == IF r.image = None THEN << >> ELSE safe_name(r.image[1].filename)
       IN  /\ files' = IF r.image = None THEN files
                        ELSE WriteFile(files, name, r.image[1].data)
           /\ SetSlot(s, [slots[s] EXCEPT
                    !.pc = "validate",
                    !.image_url = IF r.image = None THEN None
                                  ELSE Some(image_url_of(name))])
    /\ UNCHANGED <<config, now, issued, pc, req, resp, docs>>

\* main.py:138-146
Validate(s) ==
    /\ slots[s].pc = "validate"
    /\ IF BlogReportValid(BuildDoc(slots[s].req, slots[s].image_url))
       THEN SetSlot(s, [slots[s] EXCEPT !.pc = "insert"])
       ELSE SetSlot(s, [slots[s] EXCEPT
                !.pc = "done",
                !.resp = [NoResp EXCEPT !.status = 500, !.detail = "ValidationError"]])
    /\ UNCHANGED <<config, now, issued, pc, req, resp, docs, files>>

\* Variant: the insert is repeated
Insert_twice(s) ==
    /\ slots[s].pc = "insert"
    /\ LET doc == BuildDoc(slots[s].req, slots[s].image_url)
           first == create_document(docs, doc)
           second == create_document(first.collection, doc)
       IN  /\ docs' = second.collection
           /\ SetSlot(s, [slots[s] EXCEPT
                    !.pc = "done",
                    !.resp = [NoResp EXCEPT !.status = 200,
                                            !.id = Some(second.id),
                                            !.image_url = slots[s].image_url]])
    /\ UNCHANGED <<config, now, issued, pc, req, resp, files>>

\* main.py:147-148
Insert(s) ==
    /\ slots[s].pc = "insert"
    /\ \E stored \in BOOLEAN :
          IF stored
          THEN LET ins == create_document(docs, BuildDoc(slots[s].req, slots[s].image_url))
               IN  /\ docs' = ins.collection
                   /\ SetSlot(s, [slots[s] EXCEPT
                            !.pc = "done",
                            !.resp = [NoResp EXCEPT !.status = 200,
                                                    !.id = Some(ins.id),
                                                    !.image_url = slots[s].image_url]])
          ELSE /\ docs' = docs
               /\ SetSlot(s, [slots[s] EXCEPT
                        !.pc = "done",
                        !.resp = [NoResp EXCEPT !.status = 500,
                                                !.detail = "StorageFailure"]])
    /\ UNCHANGED <<config, now, issued, pc, req, resp, files>>

InitConc == Startup(AdminUsernames, {DefaultAdminPassword}, {"truncate"})

ArriveReport ==
    \E s \in 1..NumRequests, auth \in Opt({AdminToken}),
       title \in {MinTitleLen - 1, MinTitleLen, MaxTitleLen}, image \in Opt(Images) :
        Arrive(s, ReportRequest(auth, title, "Burgers", None, MinContentLen, image))

NextConc ==
    \/ ArriveReport
    \/ \E s \in 1..NumRequests : Authenticate(s)
    \/ \E s \in 1..NumRequests : SaveUpload(s)
    \/ \E s \in 1..NumRequests : Validate(s)
    \/ \E s \in 1..NumRequests : Insert(s)

SpecConc == InitConc /\ [][NextConc]_vars

----------------------------------------------------------------------------
(* Properties *)

HandledLogin == pc = "done" /\ req.kind = "login"
HandledReport == pc = "done" /\ req.kind = "report"

\* The signature was made with the service's key over this very token
SignatureValid(t) ==
    /\ t.sig.key = SECRET_KEY
    /\ t.sig.alg = t.alg
    /\ t.sig.payload = t.payload

\* The bearer token is missing, badly signed, or names another subject
Unauthorized(auth) ==
    \/ auth = None
    \/ ~SignatureValid(auth[1])
    \/ auth[1].payload.sub # Some(ADMIN_USERNAME)

\* The submitted fields satisfy the length constraints of BlogReport
FieldsValid(r) ==
    /\ r.title >= 3 /\ r.title <= 140
    /\ r.content >= 10
    /\ (r.excerpt # None => r.excerpt[1] <= 280)

\* C1: a login with the configured admin pair succeeds and returns a token
\* whose subject decodes to that username; a login with any other pair is
\* answered 400 "Incorrect username or password".
C1_LoginIffAdminPair ==
    HandledLogin =>
        IF req.username = ADMIN_USERNAME /\ req.password = ADMIN_PASSWORD
        THEN /\ resp.status = 200
             /\ resp.access_token # None
             /\ jwt_decode(resp.access_token[1]).payload.sub = Some(req.username)
        ELSE /\ resp.status = 400
             /\ resp.detail = "Incorrect username or password"

\* C2: a presented token whose signature is not valid under the shared
\* secret, or whose subject is absent or differs from the admin username, is
\* rejected with 401 "Could not validate credentials"; so a token is accepted
\* only if its signature is valid and its subject is the admin username.
C2_TamperedTokenRejected ==
    (HandledReport /\ req.auth # None) =>
        LET t == req.auth[1]
        IN  (~SignatureValid(t) \/ t.payload.sub # Some(ADMIN_USERNAME))
                => (resp.status = 401 /\ resp.detail = "Could not validate credentials")

C2_Witness ==
    /\ HandledReport
    /\ req.auth # None
    /\ req.auth[1].payload.sub = Some("guest")
    /\ req.auth[1].payload.sub # Some(ADMIN_USERNAME)
    /\ req.auth[1].alg = ALGORITHM
    /\ req.auth[1].sig = Sign(SECRET_KEY, ALGORITHM, AdminPayload)
    /\ resp.status = 401

\* C3: every token a login has issued is accepted by the token verifier in
\* every later state, whatever time has passed and whatever requests were
\* handled since; a report request presenting it is never answered 401.
C3_IssuedTokenStaysAccepted ==
    /\ \A t \in issued : get_current_user(Some(t)).ok
    /\ (HandledReport /\ req.auth # None /\ req.auth[1] \in issued) => resp.status # 401

C3_Witness ==
    /\ NowSeconds > ACCESS_TOKEN_EXPIRE_MINUTES * 60
    /\ HandledReport
    /\ req.auth # None
    /\ req.auth[1] \in issued
    /\ resp.status = 200
    /\ Len(docs) = 1

\* C4: an authenticated submission whose fields violate the BlogReport schema
\* leaves the upload directory as it was: no file is written for it.
C4_NoFileWriteOnInvalidFields ==
    [][(pc = "idle" /\ pc' = "done" /\ req'.kind = "report"
          /\ ~Unauthorized(req'.auth) /\ ~FieldsValid(req'))
        => files' = files]_vars

\* C5: an authenticated, otherwise valid submission with an attached image
\* succeeds, stores the file under the name with every "/" and "\" replaced
\* by "_", returns image_url "/uploads/<that name>" and inserts one document.
C5_ImageUploadSucceeds ==
    (HandledReport /\ ~Unauthorized(req.auth) /\ FieldsValid(req)
        /\ req.image # None /\ resp.detail # "StorageFailure") =>
        LET fn == req.image[1].filename
            sanitized == [i \in 1..Len(fn) |->
                            IF fn[i] = "/" \/ fn[i] = "\\" THEN "_" ELSE fn[i]]
        IN  /\ resp.status = 200
            /\ resp.image_url = Some(<<"/", "u", "p", "l", "o", "a", "d", "s", "/">> \o sanitized)
            /\ [data |-> req.image[1].data, name |-> sanitized] \in files
            /\ resp.id # None
            /\ Len(docs) = 1

\* C6: an authenticated submission is never rejected because of its category:
\* with valid fields and no image it passes validation whatever the category,
\* and the stored category is the submitted one when that is Kebabs, Burgers
\* or Restaurants, and Restaurants otherwise.
C6_CategoryCoerced ==
    (HandledReport /\ ~Unauthorized(req.auth)) =>
        /\ (FieldsValid(req) /\ req.image = None) => resp.detail # "ValidationError"
        /\ resp.status = 200 =>
              docs[resp.id[1]].doc.category =
                  IF req.category \in {"Kebabs", "Burgers", "Restaurants"}
                  THEN req.category ELSE "Restaurants"

C6_Witness ==
    /\ HandledReport
    /\ req.category = "Pizza"
    /\ resp.status = 200
    /\ docs[resp.id[1]].doc.category = "Restaurants"

\* C7: a submission whose title is shorter than 3 or longer than 140, whose
\* content is shorter than 10 or whose excerpt is longer than 280 characters
\* is rejected and leaves the document collection unchanged.
C7_NoInsertOnInvalidFields ==
    [][(pc = "idle" /\ pc' = "done" /\ req'.kind = "report" /\ ~FieldsValid(req'))
        => (docs' = docs /\ resp'.status # 200)]_vars

C7_Witness ==
    /\ HandledReport
    /\ ~Unauthorized(req.auth)
    /\ req.title = 2
    /\ req.content >= 10
    /\ req.excerpt = None
    /\ req.image = None
    /\ resp.status = 500
    /\ resp.detail = "ValidationError"
    /\ docs = << >>

\* C8: every stored document has the configured admin username as author and
\* status "published".
C8_AuthorIsAdminUsername ==
    \A i \in DOMAIN docs :
        /\ docs[i].doc.author = ADMIN_USERNAME
        /\ docs[i].doc.status = "published"

\* The concurrent requests that were answered 200
Succeeded == { s \in 1..NumRequests : slots[s].pc = "done" /\ slots[s].resp.status = 200 }

\* C9: under any interleaving of report requests, each successful request
\* has inserted exactly one document, the id it returns is that document's,
\* and no two requests return the same id.
C9_DistinctIds ==
    /\ \A s1, s2 \in Succeeded : s1 # s2 => slots[s1].resp.id # slots[s2].resp.id
    /\ Cardinality(Succeeded) = Len(docs)
    /\ \A s \in Succeeded :
          /\ slots[s].resp.id[1] \in DOMAIN docs
          /\ docs[slots[s].resp.id[1]].doc.title = slots[s].req.title

C9_Witness ==
    \E s1, s2 \in Succeeded :
        /\ slots[s1].req.title # slots[s2].req.title
        /\ slots[s1].resp.id # slots[s2].resp.id
        /\ s1 < s2
        /\ slots[s1].resp.id[1] > slots[s2].resp.id[1]

\* C10: a report request whose token is missing, badly signed or names
\* another subject is answered 401 and changes neither the upload directory
\* nor the collection; so whenever a file or a document is stored, the
\* request being handled carries a valid admin token.
C10_AuthBeforeSideEffects ==
    [][/\ (pc = "idle" /\ pc' = "done" /\ req'.kind = "report" /\ Unauthorized(req'.auth))
            => (resp'.status = 401 /\ docs' = docs /\ files' = files)
       /\ (docs' # docs \/ files' # files)
            => (pc' = "done" /\ req'.kind = "report" /\ ~Unauthorized(req'.auth))]_vars

C10_Witness ==
    /\ HandledReport
    /\ req.auth # None
    /\ SignatureValid(req.auth[1])
    /\ req.auth[1].payload.sub = Some("guest")
    /\ ADMIN_USERNAME # "guest"
    /\ req.image # None
    /\ req.title >= 3
    /\ resp.status = 401
    /\ files = {}
    /\ docs = << >>

====
